---- MODULE Spec2Model ----
(***************************************************************************)
(* The SalesOrder aggregate of the Sales bounded context                   *)
(* (src/src/sales/domain/model/sales-order.ts), its line items             *)
(* (sales-order-item.ts), the Customer's lastOrderPrice (customer.ts) and  *)
(* the callers that issue operations on one order, as the demonstration    *)
(* script does.  The methods are synchronous (no await, no callback), so a *)
(* call runs from entry to return or throw as one step; no method takes    *)
(* its caller as an input, so the executions of any number of callers are  *)
(* the sequences of calls, each call by whoever issues it.                 *)
(*                                                                         *)
(* Strings that the code trims are sequences of one-character strings, so  *)
(* that trim() is computed and not assumed.  A thrown Error is its message,*)
(* the sequence of its words, interpolated values included.                *)
(***************************************************************************)
EXTENDS Integers, Sequences, FiniteSets, TLC

VARIABLES
    order,           \* the SalesOrder held by the caller, or Null before construction
    uuids,           \* number of identifiers uuidv4() has produced so far
    lastOp,          \* the last operation the caller issued, with its arguments
    thrown,          \* the Error that operation threw (its message), or NoError
    returned,        \* the Money the last calculateTotalPrice() returned, or Null
    lastOrderPrice,  \* Customer._lastOrderPrice
    pc,              \* how far the calls have followed the demonstration script
    succeeded        \* the confirm/ship/cancel calls that returned without throwing, in order

vars == <<order, uuids, lastOp, thrown, returned, lastOrderPrice, pc, succeeded>>

-----------------------------------------------------------------------------
(* Bounds of the model *)

\* largest number of items an order is given
MaxItems == 2
\* largest number of identifiers spent on constructor calls
MaxCreate == 2

-----------------------------------------------------------------------------
(* Values *)

Null == [null |-> TRUE]
NoError == <<>>

\* Values of type number are the integers and NaN.  NaN is written as an
\* integer that no arithmetic of the model yields; number operators are the
\* js... operators below, which treat it as IEEE 754 does.
NaN == -1000000

IsNaN(x) == x = NaN

\* a <= b on numbers: false when either is NaN
jsLessEq(a, b) == ~IsNaN(a) /\ ~IsNaN(b) /\ a <= b

\* a * b and a + b on numbers: NaN when either is NaN
jsTimes(a, b) == IF IsNaN(a) \/ IsNaN(b) THEN NaN ELSE a * b

jsPlus(a, b) == IF IsNaN(a) \/ IsNaN(b) THEN NaN ELSE a + b

SP == " "
WhiteSpace == {SP}

P001 == <<"P", "0", "0", "1">>
P002 == <<"P", "0", "0", "2">>
P003 == <<"P", "0", "0", "3">>
C001 == <<"C", "1">>

\* customerId arguments of the constructor: empty, blank, plain, padded
CustomerIds == {<<>>, <<SP>>, C001, <<SP>> \o C001 \o <<SP>>}
Currencies == {"USD", "PEN"}
\* orderedAt arguments: omitted, a past date, a date in the future, an unparseable string
OrderedAts == {"undefined", "2023-05-15T10:30:00Z", "2999-01-01T00:00:00Z", "not-a-date"}

\* (productId, quantity, unitPriceAmount) arguments of addItem: the three
\* lines of the demonstration script, a padded productId, the invalid ones,
\* and a quantity that is not a number
AddItemArgs ==
    { <<P001, 2, 100>>, <<P002, 20, 50>>, <<P003, 1, 150>>,
      <<<<SP>> \o P003 \o <<SP>>, 1, 150>>,
      <<<<>>, 1, 50>>, <<<<SP, SP>>, 2, 100>>, <<<<>>, 0, 50>>,
      <<P001, 0, 100>>, <<P002, -1, 50>>,
      <<P001, NaN, 100>> }

States == {"PENDING", "CONFIRMED", "SHIPPED", "CANCELLED"}

-----------------------------------------------------------------------------
(* String.prototype.trim *)

RECURSIVE trimStart(_)
trimStart(s) ==
    IF s # <<>> /\ Head(s) \in WhiteSpace THEN trimStart(Tail(s)) ELSE s

RECURSIVE trimEnd(_)
trimEnd(s) ==
    IF s # <<>> /\ s[Len(s)] \in WhiteSpace
    THEN trimEnd(SubSeq(s, 1, Len(s) - 1))
    ELSE s

trim(s) == trimEnd(trimStart(s))

-----------------------------------------------------------------------------
(* Collaborators: Money and DateTime (shared/domain/model) *)

\* a thrown Error as a value that propagates through an expression
Throw(message) == [error |-> message]
IsThrow(v) == "error" \in DOMAIN v

Money(amount, currency) == [amount |-> amount, currency |-> currency]

MoneyAdd(a, b) ==
    IF a.currency # b.currency
    THEN Throw(<<"Currencies", "must", "match">>)
    ELSE Money(jsPlus(a.amount, b.amount), a.currency)

MoneyMultiply(m, multiplier) == Money(jsTimes(m.amount, multiplier), m.currency)

\* new DateTime(value): the current time when value is omitted; fails on an
\* unparseable value and on a date in the future
DateTime(value) ==
    CASE value = "undefined" -> [date |-> "now"]
      [] value = "not-a-date" -> Throw(<<"Invalid", "date">>)
      [] value = "2999-01-01T00:00:00Z" -> Throw(<<"Date", "cannot", "be", "in", "the", "future">>)
      [] OTHER -> [date |-> value]

\* uuidv4(): an identifier no earlier call returned; n is the number of earlier calls
uuidv4(n) == <<"uuid", n + 1>>

-----------------------------------------------------------------------------
(* SalesOrderItem *)

SalesOrderItem(orderId, productId, quantity, unitPrice, n) ==
    [ itemId    |-> uuidv4(n),
      orderId   |-> orderId,
      productId |-> productId,
      quantity  |-> quantity,
      unitPrice |-> unitPrice ]

\* a slip: the quantity is left out of the line's price
calculateItemPrice_unitPriceOnly(item) == item.unitPrice

calculateItemPrice(item) == MoneyMultiply(item.unitPrice, item.quantity)

-----------------------------------------------------------------------------
(* SalesOrder: every method maps the object (and its arguments) to the     *)
(* object after the call, the Error thrown (NoError when it returns) and   *)
(* the number of identifiers it drew.                                      *)

Outcome(self, error, drawn) == [self |-> self, thrown |-> error, drawn |-> drawn]

\* a slip: only the empty string is refused, a whitespace-only one is not
SalesOrder_emptyOnly(customerId, currency, orderedAt, n) ==
    IF customerId = <<>>
    THEN Outcome(Null, <<"Customer", "ID", "cannot", "be", "empty">>, 0)
    ELSE LET at == DateTime(orderedAt) IN
         IF IsThrow(at)
         THEN Outcome(Null, at.error, 1)
         ELSE Outcome([ id         |-> uuidv4(n),
                        customerId |-> trim(customerId),
                        currency   |-> currency,
                        items      |-> <<>>,
                        orderedAt  |-> at,
                        state      |-> "PENDING" ], NoError, 1)

SalesOrder(customerId, currency, orderedAt, n) ==
    IF customerId = <<>> \/ trim(customerId) = <<>>
    THEN Outcome(Null, <<"Customer", "ID", "cannot", "be", "empty">>, 0)
    ELSE LET at == DateTime(orderedAt) IN
         IF IsThrow(at)
         THEN Outcome(Null, at.error, 1)
         ELSE Outcome([ id         |-> uuidv4(n),
                        customerId |-> trim(customerId),
                        currency   |-> currency,
                        items      |-> <<>>,
                        orderedAt  |-> at,
                        state      |-> "PENDING" ], NoError, 1)

\* a slip: SHIPPED is forgotten in the guard
canAddItems_unlessCancelled(o) == o.state # "CANCELLED"

\* a slip: the guard is tightened to PENDING alone
canAddItems_pendingOnly(o) == o.state = "PENDING"

canAddItems(o) == o.state # "CANCELLED" /\ o.state # "SHIPPED"

\* a slip: the item is put first (unshift for push)
addItem_unshift(o, productId, quantity, unitPriceAmount, n) ==
    IF productId = <<>> \/ trim(productId) = <<>>
    THEN Outcome(o, <<"Product", "ID", "cannot", "be", "empty">>, 0)
    ELSE IF jsLessEq(quantity, 0)
    THEN Outcome(o, <<"Quantity", "must", "be", "greater", "than", "zero">>, 0)
    ELSE IF ~(o.state # "CANCELLED" /\ o.state # "SHIPPED")
    THEN Outcome(o, <<"Cannot", "add", "items", "to", "a", o.state, "order">>, 0)
    ELSE LET unitPrice == Money(unitPriceAmount, o.currency)
             item == SalesOrderItem(o.id, trim(productId), quantity, unitPrice, n)
         IN  Outcome([o EXCEPT !.items = <<item>> \o @], NoError, 1)

\* a slip: the item is pushed before the arguments and the state are checked
addItem_pushBeforeChecks(o, productId, quantity, unitPriceAmount, n) ==
    LET unitPrice == Money(unitPriceAmount, o.currency)
        item == SalesOrderItem(o.id, trim(productId), quantity, unitPrice, n)
        pushed == [o EXCEPT !.items = Append(@, item)]
    IN  IF productId = <<>> \/ trim(productId) = <<>>
        THEN Outcome(pushed, <<"Product", "ID", "cannot", "be", "empty">>, 1)
        ELSE IF jsLessEq(quantity, 0)
        THEN Outcome(pushed, <<"Quantity", "must", "be", "greater", "than", "zero">>, 1)
        ELSE IF ~(o.state # "CANCELLED" /\ o.state # "SHIPPED")
        THEN Outcome(pushed, <<"Cannot", "add", "items", "to", "a", o.state, "order">>, 1)
        ELSE Outcome(pushed, NoError, 1)

\* a slip: a line of the same product is replaced by one with the quantities
\* added up, instead of a new line being appended
addItem_mergeSameProduct(o, productId, quantity, unitPriceAmount, n) ==
    IF productId = <<>> \/ trim(productId) = <<>>
    THEN Outcome(o, <<"Product", "ID", "cannot", "be", "empty">>, 0)
    ELSE IF jsLessEq(quantity, 0)
    THEN Outcome(o, <<"Quantity", "must", "be", "greater", "than", "zero">>, 0)
    ELSE IF ~(o.state # "CANCELLED" /\ o.state # "SHIPPED")
    THEN Outcome(o, <<"Cannot", "add", "items", "to", "a", o.state, "order">>, 0)
    ELSE LET unitPrice == Money(unitPriceAmount, o.currency)
             item == SalesOrderItem(o.id, trim(productId), quantity, unitPrice, n)
             same == {i \in DOMAIN o.items : o.items[i].productId = item.productId}
         IN  IF same = {}
             THEN Outcome([o EXCEPT !.items = Append(@, item)], NoError, 1)
             ELSE LET i == CHOOSE k \in same : TRUE IN
                  Outcome([o EXCEPT !.items[i].quantity = jsPlus(@, quantity)], NoError, 0)

\* a slip: the unit price is built in a fixed currency, not the order's
addItem_usdPrice(o, productId, quantity, unitPriceAmount, n) ==
    IF productId = <<>> \/ trim(productId) = <<>>
    THEN Outcome(o, <<"Product", "ID", "cannot", "be", "empty">>, 0)
    ELSE IF jsLessEq(quantity, 0)
    THEN Outcome(o, <<"Quantity", "must", "be", "greater", "than", "zero">>, 0)
    ELSE IF ~(o.state # "CANCELLED" /\ o.state # "SHIPPED")
    THEN Outcome(o, <<"Cannot", "add", "items", "to", "a", o.state, "order">>, 0)
    ELSE LET unitPrice == Money(unitPriceAmount, "USD")
             item == SalesOrderItem(o.id, trim(productId), quantity, unitPrice, n)
         IN  Outcome([o EXCEPT !.items = Append(@, item)], NoError, 1)

addItem(o, productId, quantity, unitPriceAmount, n) ==
    IF productId = <<>> \/ trim(productId) = <<>>
    THEN Outcome(o, <<"Product", "ID", "cannot", "be", "empty">>, 0)
    ELSE IF jsLessEq(quantity, 0)
    THEN Outcome(o, <<"Quantity", "must", "be", "greater", "than", "zero">>, 0)
    ELSE IF ~canAddItems(o)
    THEN Outcome(o, <<"Cannot", "add", "items", "to", "a", o.state, "order">>, 0)
    ELSE LET unitPrice == Money(unitPriceAmount, o.currency)
             item == SalesOrderItem(o.id, trim(productId), quantity, unitPrice, n)
         IN  Outcome([o EXCEPT !.items = Append(@, item)], NoError, 1)

\* Array.prototype.reduce with the callback of calculateTotalPrice; a throw
\* of Money.add ends the reduction
RECURSIVE reduceTotal(_, _)
reduceTotal(items, total) ==
    IF items = <<>> \/ IsThrow(total)
    THEN total
    ELSE reduceTotal(Tail(items), MoneyAdd(total, calculateItemPrice(Head(items))))

\* a slip: reduce without its initial value, which throws on an empty array
calculateTotalPrice_noInitialValue(o) ==
    IF o.items = <<>>
    THEN Throw(<<"Reduce", "of", "empty", "array", "with", "no", "initial", "value">>)
    ELSE reduceTotal(Tail(o.items), calculateItemPrice(Head(o.items)))

calculateTotalPrice(o) == reduceTotal(o.items, Money(0, o.currency))

\* a slip: confirming a CONFIRMED order again is accepted silently
confirm_againAccepted(o) ==
    IF o.state = "PENDING" \/ o.state = "CONFIRMED"
    THEN Outcome([o EXCEPT !.state = "CONFIRMED"], NoError, 0)
    ELSE Outcome(o, <<"Cannot", "confirm", "an", "order", "that", "is", o.state>>, 0)

\* a slip: the guard refuses only an order that is CONFIRMED already
confirm_unlessConfirmed(o) ==
    IF o.state # "CONFIRMED"
    THEN Outcome([o EXCEPT !.state = "CONFIRMED"], NoError, 0)
    ELSE Outcome(o, <<"Cannot", "confirm", "an", "order", "that", "is", o.state>>, 0)

confirm(o) ==
    IF o.state = "PENDING"
    THEN Outcome([o EXCEPT !.state = "CONFIRMED"], NoError, 0)
    ELSE Outcome(o, <<"Cannot", "confirm", "an", "order", "that", "is", o.state>>, 0)

\* a slip: the message is copied from confirm()
ship_copiedMessage(o) ==
    IF o.state = "CONFIRMED"
    THEN Outcome([o EXCEPT !.state = "SHIPPED"], NoError, 0)
    ELSE Outcome(o, <<"Cannot", "confirm", "an", "order", "that", "is", o.state>>, 0)

\* a slip: the assignment of the new state is missing
ship_stateNotAssigned(o) ==
    IF o.state = "CONFIRMED"
    THEN Outcome(o, NoError, 0)
    ELSE Outcome(o, <<"Cannot", "ship", "an", "order", "that", "is", o.state>>, 0)

\* a slip: the guard of cancel() is used, so a PENDING order is shipped
ship_withoutConfirm(o) ==
    IF o.state = "SHIPPED" \/ o.state = "CANCELLED"
    THEN Outcome(o, <<"Cannot", "ship", "an", "order", "that", "is", o.state>>, 0)
    ELSE Outcome([o EXCEPT !.state = "SHIPPED"], NoError, 0)

ship(o) ==
    IF o.state = "CONFIRMED"
    THEN Outcome([o EXCEPT !.state = "SHIPPED"], NoError, 0)
    ELSE Outcome(o, <<"Cannot", "ship", "an", "order", "that", "is", o.state>>, 0)

\* a slip: SHIPPED is forgotten in the guard
cancel_unlessCancelled(o) ==
    IF o.state = "CANCELLED"
    THEN Outcome(o, <<"Cannot", "cancel", "an", "order", "that", "is", o.state>>, 0)
    ELSE Outcome([o EXCEPT !.state = "CANCELLED"], NoError, 0)

\* a slip: cancelling also empties the order
cancel_clearsItems(o) ==
    IF o.state = "SHIPPED" \/ o.state = "CANCELLED"
    THEN Outcome(o, <<"Cannot", "cancel", "an", "order", "that", "is", o.state>>, 0)
    ELSE Outcome([o EXCEPT !.state = "CANCELLED", !.items = <<>>], NoError, 0)

cancel(o) ==
    IF o.state = "SHIPPED" \/ o.state = "CANCELLED"
    THEN Outcome(o, <<"Cannot", "cancel", "an", "order", "that", "is", o.state>>, 0)
    ELSE Outcome([o EXCEPT !.state = "CANCELLED"], NoError, 0)

-----------------------------------------------------------------------------
(* The caller *)

Call(op, args) == [op |-> op, args |-> args]

SameCall(a, b) == a.op = b.op /\ a.args = b.args

\* the calls of the demonstration script: scenario 1 (lines 17-21)
RealTimeScript ==
    << Call("new", <<C001, "USD", "undefined">>),
       Call("addItem", <<P001, 2, 100>>),
       Call("addItem", <<P002, 20, 50>>),
       Call("confirm", <<>>),
       Call("calculateTotalPrice", <<>>),
       Call("lastOrderPrice=", <<>>) >>

\* scenario 2 and the test of the state constraints (lines 28-36)
ManualScript ==
    << Call("new", <<C001, "PEN", "2023-05-15T10:30:00Z">>),
       Call("addItem", <<P003, 1, 150>>),
       Call("confirm", <<>>),
       Call("ship", <<>>),
       Call("calculateTotalPrice", <<>>),
       Call("lastOrderPrice=", <<>>),
       Call("confirm", <<>>) >>

ScriptOf(name) == IF name = "realTime" THEN RealTimeScript ELSE ManualScript

At(script, step) == [script |-> script, step |-> step]
Off == At("off", 0)

\* the position after `call`: one call further in the script the caller has
\* followed so far, or Off when the call is not the script's next one
Follow(at, call) ==
    IF at.script = "start"
    THEN IF SameCall(call, RealTimeScript[1]) THEN At("realTime", 1)
         ELSE IF SameCall(call, ManualScript[1]) THEN At("manual", 1)
         ELSE Off
    ELSE IF at.script = "off" \/ at.step >= Len(ScriptOf(at.script))
    THEN Off
    ELSE IF SameCall(call, ScriptOf(at.script)[at.step + 1])
    THEN At(at.script, at.step + 1)
    ELSE Off

\* what every call leaves behind: the call and the Error it threw
Issue(call, error) ==
    /\ lastOp' = call
    /\ thrown' = error
    /\ pc' = Follow(pc, call)

Init ==
    /\ order = Null
    /\ uuids = 0
    /\ lastOp = Call("none", <<>>)
    /\ thrown = NoError
    /\ returned = Null
    /\ lastOrderPrice = Null
    /\ pc = At("start", 0)
    /\ succeeded = <<>>

\* const o = new SalesOrder(customerId, currency, orderedAt)
Create(customerId, currency, orderedAt) ==
    /\ order = Null
    /\ uuids < MaxCreate
    /\ LET r == SalesOrder(customerId, currency, orderedAt, uuids) IN
        /\ order' = r.self
        /\ uuids' = uuids + r.drawn
        /\ Issue(Call("new", <<customerId, currency, orderedAt>>), r.thrown)
    /\ UNCHANGED <<returned, lastOrderPrice, succeeded>>

\* o.addItem(productId, quantity, unitPriceAmount)
AddItem(productId, quantity, unitPriceAmount) ==
    /\ order # Null
    /\ LET r == addItem(order, productId, quantity, unitPriceAmount, uuids) IN
        /\ Len(r.self.items) <= MaxItems
        /\ order' = r.self
        /\ uuids' = uuids + r.drawn
        /\ Issue(Call("addItem", <<productId, quantity, unitPriceAmount>>), r.thrown)
    /\ UNCHANGED <<returned, lastOrderPrice, succeeded>>

\* o.confirm(), o.ship(), o.cancel()
Transition(op, r) ==
    /\ order' = r.self
    /\ Issue(Call(op, <<>>), r.thrown)
    /\ succeeded' = IF r.thrown = NoError THEN Append(succeeded, op) ELSE succeeded
    /\ UNCHANGED <<uuids, returned, lastOrderPrice>>

Confirm == order # Null /\ Transition("confirm", confirm(order))

Ship == order # Null /\ Transition("ship", ship(order))

Cancel == order # Null /\ Transition("cancel", cancel(order))

\* a slip: the items are taken out of the array while they are summed
CalculateTotalPrice_draining ==
    /\ order # Null
    /\ LET total == calculateTotalPrice(order) IN
        IF IsThrow(total)
        THEN Issue(Call("calculateTotalPrice", <<>>), total.error) /\ UNCHANGED returned
        ELSE Issue(Call("calculateTotalPrice", <<>>), NoError) /\ returned' = total
    /\ order' = [order EXCEPT !.items = <<>>]
    /\ UNCHANGED <<uuids, lastOrderPrice, succeeded>>

\* const total = o.calculateTotalPrice()
CalculateTotalPrice ==
    /\ order # Null
    /\ LET total == calculateTotalPrice(order) IN
        IF IsThrow(total)
        THEN Issue(Call("calculateTotalPrice", <<>>), total.error) /\ UNCHANGED returned
        ELSE Issue(Call("calculateTotalPrice", <<>>), NoError) /\ returned' = total
    /\ UNCHANGED <<order, uuids, lastOrderPrice, succeeded>>

\* customer.lastOrderPrice = total
SetLastOrderPrice ==
    /\ returned # Null
    /\ lastOrderPrice' = returned
    /\ Issue(Call("lastOrderPrice=", <<>>), NoError)
    /\ UNCHANGED <<order, uuids, returned, succeeded>>

Next ==
    \/ \E c \in CustomerIds, cur \in Currencies, at \in OrderedAts : Create(c, cur, at)
    \/ \E a \in AddItemArgs : AddItem(a[1], a[2], a[3])
    \/ Confirm
    \/ Ship
    \/ Cancel
    \/ CalculateTotalPrice
    \/ SetLastOrderPrice

Spec == Init /\ [][Next]_vars

-----------------------------------------------------------------------------
(* The error taxonomy: the kind of a thrown Error, read off its message *)

ErrorKind(e) ==
    CASE e = NoError -> "none"
      [] e \in { <<"Customer", "ID", "cannot", "be", "empty">>,
                 <<"Product", "ID", "cannot", "be", "empty">>,
                 <<"Quantity", "must", "be", "greater", "than", "zero">>,
                 <<"Invalid", "date">>,
                 <<"Date", "cannot", "be", "in", "the", "future">> } -> "InvalidArgument"
      [] e = <<"Currencies", "must", "match">> -> "CurrencyMismatch"
      [] e[1] = "Cannot" -> "IllegalStateTransition"
      [] OTHER -> "Error"

-----------------------------------------------------------------------------
(* Vocabulary of the properties *)

Terminal == {"CANCELLED", "SHIPPED"}
Transitions == {"confirm", "ship", "cancel"}
Mutators == Transitions \cup {"addItem"}

\* the edges of the state machine: <<from, operation, to>>
Edges ==
    { <<"PENDING", "confirm", "CONFIRMED">>,
      <<"CONFIRMED", "ship", "SHIPPED">>,
      <<"PENDING", "cancel", "CANCELLED">>,
      <<"CONFIRMED", "cancel", "CANCELLED">> }

IsBlank(str) == \A i \in DOMAIN str : str[i] = SP

\* quantity > 0 and quantity <= 0 on numbers: NaN is neither
IsPositive(q) == ~IsNaN(q) /\ q > 0
IsNotPositive(q) == ~IsNaN(q) /\ q <= 0

\* addItem arguments with a non-blank productId and a positive quantity
ValidItemArgs(args) == ~IsBlank(args[1]) /\ IsPositive(args[2])

\* addItem arguments with a blank productId or a quantity <= 0
InvalidItemArgs(args) == IsBlank(args[1]) \/ IsNotPositive(args[2])

Mentions(message, word) == \E i \in DOMAIN message : message[i] = word

\* the words by which a message names the operation
ActionWords(op) ==
    IF op = "addItem" THEN {"add", "items"} ELSE {op}

\* sum over the items of quantity x unitPrice, last item first
RECURSIVE SumOfSubtotals(_)
SumOfSubtotals(items) ==
    IF items = <<>>
    THEN 0
    ELSE LET n == Len(items)
             rest == SumOfSubtotals(SubSeq(items, 1, n - 1))
         IN  IF IsNaN(items[n].quantity) \/ IsNaN(rest)
             THEN NaN
             ELSE items[n].quantity * items[n].unitPrice.amount + rest

\* the (productId, quantity, unit price amount) of every item, in order
Lines(o) ==
    [i \in DOMAIN o.items |->
        <<o.items[i].productId, o.items[i].quantity, o.items[i].unitPrice.amount>>]

-----------------------------------------------------------------------------
(* C1 *)

\* C1: confirm(), ship() and cancel() change the state only along the edges
\* PENDING->CONFIRMED (confirm), CONFIRMED->SHIPPED (ship), PENDING->CANCELLED
\* and CONFIRMED->CANCELLED (cancel); every other (state, operation) pair
\* throws an IllegalStateTransition error and leaves the state unchanged.
C1_TransitionEdges ==
    [][ (order # Null /\ lastOp'.op \in Transitions) =>
        IF \E e \in Edges : e[1] = order.state /\ e[2] = lastOp'.op
        THEN thrown' = NoError
             /\ <<order.state, lastOp'.op, order'.state>> \in Edges
        ELSE ErrorKind(thrown') = "IllegalStateTransition"
             /\ order'.state = order.state ]_vars

\* a cancel() refused on a SHIPPED order
C1_Witness ==
    /\ order # Null
    /\ lastOp.op = "cancel"
    /\ order.state = "SHIPPED"
    /\ ErrorKind(thrown) = "IllegalStateTransition"

-----------------------------------------------------------------------------
(* C2 *)

\* C2 as stated: every addItem call on a CANCELLED or SHIPPED order, whatever
\* its arguments, throws an IllegalStateTransition error and appends no item.
C2_AlwaysIllegalState ==
    [][ (order # Null /\ order.state \in Terminal /\ lastOp'.op = "addItem") =>
        /\ ErrorKind(thrown') = "IllegalStateTransition"
        /\ order'.items = order.items ]_vars

\* C2 as amended: every addItem call on a CANCELLED or SHIPPED order fails
\* and appends no item; the error is InvalidArgument when productId is blank
\* or quantity <= 0, because the arguments are checked before the state, and
\* IllegalStateTransition otherwise (so when productId is non-blank and
\* quantity > 0).
C2_TerminalAddItemFails ==
    [][ (order # Null /\ order.state \in Terminal /\ lastOp'.op = "addItem") =>
        /\ order'.items = order.items
        /\ ErrorKind(thrown') =
             IF InvalidItemArgs(lastOp'.args)
             THEN "InvalidArgument"
             ELSE "IllegalStateTransition"
        /\ ValidItemArgs(lastOp'.args) =>
             ErrorKind(thrown') = "IllegalStateTransition" ]_vars

\* a valid addItem refused on a SHIPPED order that holds an item
C2_Witness ==
    /\ order # Null
    /\ order.state = "SHIPPED"
    /\ lastOp.op = "addItem"
    /\ ValidItemArgs(lastOp.args)
    /\ ErrorKind(thrown) = "IllegalStateTransition"
    /\ Len(order.items) = 1

-----------------------------------------------------------------------------
(* C3 *)

\* C3: an order just constructed (from a non-blank customerId and any
\* currency) is in state PENDING, has no items, and its calculateTotalPrice()
\* is amount 0 in the currency it was constructed with.
C3_NewOrder ==
    (lastOp.op = "new" /\ thrown = NoError) =>
        /\ order # Null
        /\ ~IsBlank(lastOp.args[1])
        /\ order.state = "PENDING"
        /\ order.items = <<>>
        /\ calculateTotalPrice(order) = Money(0, lastOp.args[2])

\* an order just constructed in PEN from a padded customerId
C3_Witness ==
    /\ lastOp.op = "new"
    /\ thrown = NoError
    /\ order # Null
    /\ lastOp.args[2] = "PEN"
    /\ Len(lastOp.args[1]) > Len(order.customerId)

-----------------------------------------------------------------------------
(* C4 *)

\* C4: a successful addItem makes the item sequence one longer, the new item
\* (with the call's quantity and unit price) last and the earlier items as
\* they were, and leaves the state unchanged.
C4_AddItemAppendsOne ==
    [][ (order # Null /\ lastOp'.op = "addItem" /\ thrown' = NoError) =>
        LET old == order.items
            new == order'.items
        IN  /\ Len(new) = Len(old) + 1
            /\ SubSeq(new, 1, Len(old)) = old
            /\ new[Len(new)].quantity = lastOp'.args[2]
            /\ new[Len(new)].unitPrice.amount = lastOp'.args[3]
            /\ order'.state = order.state ]_vars

\* a second, different item added to a CONFIRMED order
C4_Witness ==
    /\ order # Null
    /\ lastOp.op = "addItem"
    /\ thrown = NoError
    /\ order.state = "CONFIRMED"
    /\ Len(order.items) = 2
    /\ order.items[1].productId # order.items[2].productId

-----------------------------------------------------------------------------
(* C5 *)

\* C5: in every state of an order, calculateTotalPrice() is the Money in the
\* order's currency whose amount is the sum over the items of quantity x
\* unitPrice, and that is what a call of it has returned.
C5_TotalIsSum ==
    order # Null =>
        /\ calculateTotalPrice(order)
             = Money(SumOfSubtotals(order.items), order.currency)
        /\ lastOp.op = "calculateTotalPrice" =>
             /\ thrown = NoError
             /\ returned = Money(SumOfSubtotals(order.items), order.currency)

\* items (2, 100) and (20, 50): the call returned 1200
C5_Witness ==
    /\ order # Null
    /\ lastOp.op = "calculateTotalPrice"
    /\ Lines(order) = << <<P001, 2, 100>>, <<P002, 20, 50>> >>
    /\ returned = Money(1200, order.currency)

-----------------------------------------------------------------------------
(* C6 *)

\* C6: an addItem, confirm, ship or cancel that throws leaves the order as it
\* was: same state, same items, same total, same every other field.
C6_FailureChangesNothing ==
    [][ (order # Null /\ lastOp'.op \in Mutators /\ thrown' # NoError) =>
        /\ order' = order
        /\ calculateTotalPrice(order') = calculateTotalPrice(order) ]_vars

\* an addItem with quantity <= 0 refused on a CONFIRMED order holding an item
C6_Witness ==
    /\ order # Null
    /\ lastOp.op = "addItem"
    /\ IsNotPositive(lastOp.args[2])
    /\ ErrorKind(thrown) = "InvalidArgument"
    /\ order.state = "CONFIRMED"
    /\ Len(order.items) = 1

-----------------------------------------------------------------------------
(* C7 *)

\* C7: the message of every IllegalStateTransition error thrown by confirm,
\* ship, cancel or addItem names the attempted operation and the state the
\* order was in when the operation was called.
C7_MessageNamesActionAndState ==
    [][ (order # Null /\ lastOp'.op \in Mutators
           /\ ErrorKind(thrown') = "IllegalStateTransition") =>
        /\ Mentions(thrown', order.state)
        /\ \A w \in ActionWords(lastOp'.op) : Mentions(thrown', w)
        /\ \A s \in States \ {order.state} : ~Mentions(thrown', s)
        /\ \A op \in Mutators \ {lastOp'.op} :
             \E w \in ActionWords(op) : ~Mentions(thrown', w) ]_vars

\* a ship() refused on a PENDING order
C7_Witness ==
    /\ order # Null
    /\ lastOp.op = "ship"
    /\ order.state = "PENDING"
    /\ Mentions(thrown, "PENDING")

-----------------------------------------------------------------------------
(* C8 *)

\* C8: addItem with a non-blank productId and quantity > 0 succeeds whenever
\* the state is PENDING or CONFIRMED (so also after confirm()), and the item
\* sequence changes only in a state that is neither CANCELLED nor SHIPPED.
C8_AddItemWhilePendingOrConfirmed ==
    [][ order # Null =>
        /\ (lastOp'.op = "addItem" /\ ValidItemArgs(lastOp'.args)
              /\ order.state \in {"PENDING", "CONFIRMED"}) =>
             /\ thrown' = NoError
             /\ Len(order'.items) = Len(order.items) + 1
        /\ order'.items # order.items => order.state \notin Terminal ]_vars

\* an item added after confirm()
C8_Witness ==
    /\ order # Null
    /\ lastOp.op = "addItem"
    /\ thrown = NoError
    /\ order.state = "CONFIRMED"
    /\ Len(order.items) = 1

-----------------------------------------------------------------------------
(* C9 *)

\* C9: the USD order of the script, after addItem(P001, 2, 100),
\* addItem(P002, 20, 50) and confirm(), is CONFIRMED with a total of 1200
\* USD; a further confirm() throws an IllegalStateTransition error naming
\* CONFIRMED, and state and total stay CONFIRMED and 1200 USD.
C9_RealTimeScenario ==
    [][ /\ pc' = At("realTime", 4) =>
             /\ thrown' = NoError
             /\ order'.state = "CONFIRMED"
             /\ calculateTotalPrice(order') = Money(1200, "USD")
        /\ pc' = At("realTime", 5) => returned' = Money(1200, "USD")
        /\ (pc.script = "realTime" /\ pc.step >= 4 /\ lastOp'.op = "confirm") =>
             /\ ErrorKind(thrown') = "IllegalStateTransition"
             /\ Mentions(thrown', "CONFIRMED")
             /\ order'.state = "CONFIRMED"
             /\ calculateTotalPrice(order') = Money(1200, "USD") ]_vars

\* the second confirm() of that order has thrown
C9_Witness ==
    /\ order # Null
    /\ lastOp.op = "confirm"
    /\ thrown # NoError
    /\ pc = Off
    /\ order.id = uuidv4(0)
    /\ order.currency = "USD"
    /\ order.state = "CONFIRMED"
    /\ Lines(order) = << <<P001, 2, 100>>, <<P002, 20, 50>> >>

-----------------------------------------------------------------------------
(* C10 *)

\* C10: the order of the script with the one item (P003, 1, 150), after
\* confirm() and ship(), is SHIPPED with a total of 150; the confirm() that
\* follows throws, the customer's lastOrderPrice is by then the total 150,
\* and the order stays SHIPPED.
C10_ManualScenario ==
    [][ /\ pc' = At("manual", 4) =>
             /\ thrown' = NoError
             /\ order'.state = "SHIPPED"
             /\ calculateTotalPrice(order') = Money(150, "PEN")
        /\ (pc.script = "manual" /\ pc.step >= 4 /\ lastOp'.op = "confirm") =>
             /\ ErrorKind(thrown') = "IllegalStateTransition"
             /\ order' = order
             /\ order'.state = "SHIPPED"
        /\ pc' = At("manual", 7) =>
             /\ thrown' # NoError
             /\ lastOrderPrice' = Money(150, "PEN")
             /\ calculateTotalPrice(order') = Money(150, "PEN") ]_vars

\* the script has reached its last call, which has thrown
C10_Witness ==
    /\ pc = At("manual", 7)
    /\ thrown # NoError
    /\ order.state = "SHIPPED"
    /\ lastOrderPrice = Money(150, "PEN")

-----------------------------------------------------------------------------
(* C11 *)

\* a string with no whitespace at either end, and not empty
IsTrimmed(t) == t # <<>> /\ t[1] # SP /\ t[Len(t)] # SP

\* t is s without the whitespace s begins and ends with
IsTrimOf(t, s) ==
    /\ IsTrimmed(t)
    /\ \E i \in 0..Len(s) :
         /\ i + Len(t) <= Len(s)
         /\ SubSeq(s, i + 1, i + Len(t)) = t
         /\ \A k \in 1..i : s[k] = SP
         /\ \A k \in (i + Len(t) + 1)..Len(s) : s[k] = SP

\* C11: constructing a SalesOrder with an empty or whitespace-only
\* customerId throws an InvalidArgument error and leaves no order (no state,
\* no items); an order that was constructed holds the trimmed customerId.
C11_BlankCustomerIdRefused ==
    /\ lastOp.op = "new" =>
         /\ IsBlank(lastOp.args[1]) =>
              /\ order = Null
              /\ ErrorKind(thrown) = "InvalidArgument"
              /\ Mentions(thrown, "Customer")
         /\ order # Null => IsTrimOf(order.customerId, lastOp.args[1])
    /\ order # Null => IsTrimmed(order.customerId)

\* a whitespace-only customerId has been refused
C11_Witness ==
    /\ lastOp.op = "new"
    /\ lastOp.args[1] = <<SP>>
    /\ order = Null
    /\ ErrorKind(thrown) = "InvalidArgument"

-----------------------------------------------------------------------------
(* C12 *)

\* C12: calculateTotalPrice() is pure: in every state of an order it
\* returns without throwing, a call of it leaves the state, the items and
\* every other field of the order as they were, and a call that directly
\* follows another returns the same Money.
C12_TotalIsPure ==
    [][ /\ order # Null => ~IsThrow(calculateTotalPrice(order))
        /\ lastOp'.op = "calculateTotalPrice" =>
             /\ thrown' = NoError
             /\ order' = order
             /\ returned' = calculateTotalPrice(order)
             /\ lastOp.op = "calculateTotalPrice" => returned' = returned ]_vars

\* the total of a CANCELLED order with two items has been returned
C12_Witness ==
    /\ order # Null
    /\ lastOp.op = "calculateTotalPrice"
    /\ thrown = NoError
    /\ order.state = "CANCELLED"
    /\ Len(order.items) = 2
    /\ returned = calculateTotalPrice(order)

-----------------------------------------------------------------------------
(* C13 *)

\* C13: SHIPPED and CANCELLED are terminal: no call made on an order in one
\* of them changes its state or its item sequence.
C13_TerminalStates ==
    [][ (order # Null /\ order.state \in Terminal) =>
        /\ order'.state = order.state
        /\ order'.items = order.items ]_vars

\* a confirm() has been refused on a CANCELLED order that holds an item
C13_Witness ==
    /\ order # Null
    /\ order.state = "CANCELLED"
    /\ lastOp.op = "confirm"
    /\ thrown # NoError
    /\ Len(order.items) = 1

-----------------------------------------------------------------------------
(* C14 *)

IsPrefix(a, b) == Len(a) <= Len(b) /\ SubSeq(b, 1, Len(a)) = a

\* C14: the item sequence is append-only: across every step the earlier
\* sequence is a prefix of the later one (hence across any two states of an
\* execution), items included with their productId, quantity and unitPrice.
C14_ItemsAppendOnly ==
    [][ order # Null => IsPrefix(order.items, order'.items) ]_vars

\* the same product added twice stays two lines, through confirm and ship
C14_Witness ==
    /\ order # Null
    /\ order.state = "SHIPPED"
    /\ Len(order.items) = 2
    /\ order.items[1].productId = order.items[2].productId
    /\ order.items[1].itemId # order.items[2].itemId

-----------------------------------------------------------------------------
(* C15 *)

\* C15: in every state, the unit price of every item is in the order's
\* currency, that currency is the one the order was constructed with, and
\* calculateTotalPrice() does not throw a CurrencyMismatch error.
C15_OneCurrency ==
    /\ order # Null =>
         /\ \A i \in DOMAIN order.items :
              order.items[i].unitPrice.currency = order.currency
         /\ ~IsThrow(calculateTotalPrice(order))
         /\ lastOp.op = "new" => order.currency = lastOp.args[2]
    /\ ErrorKind(thrown) # "CurrencyMismatch"

\* the total of a PEN order with two items has been returned
C15_Witness ==
    /\ order # Null
    /\ order.currency = "PEN"
    /\ Len(order.items) = 2
    /\ lastOp.op = "calculateTotalPrice"
    /\ returned = Money(SumOfSubtotals(order.items), "PEN")

-----------------------------------------------------------------------------
(* C16 *)

\* C16: in every state, every item of an order has quantity > 0, a non-empty
\* productId and the id of the order as its orderId; an addItem with a blank
\* productId or quantity <= 0 on a PENDING or CONFIRMED order throws an
\* InvalidArgument error and appends nothing.
C16_ItemsWellFormed ==
    [][ order' # Null =>
        /\ \A i \in DOMAIN order'.items :
             /\ IsPositive(order'.items[i].quantity)
             /\ ~IsBlank(order'.items[i].productId)
             /\ order'.items[i].orderId = order'.id
        /\ (order # Null /\ lastOp'.op = "addItem"
              /\ InvalidItemArgs(lastOp'.args)
              /\ order.state \in {"PENDING", "CONFIRMED"}) =>
             /\ ErrorKind(thrown') = "InvalidArgument"
             /\ order'.items = order.items ]_vars

-----------------------------------------------------------------------------
(* C17 *)

\* C17: confirm(), ship() and cancel(), whether they return or throw, change
\* no field but the state: items, total price, id, customerId, currency and
\* orderedAt are after the call what they were before it.
C17_TransitionsChangeStateOnly ==
    [][ (order # Null /\ lastOp'.op \in Transitions) =>
        /\ order'.items = order.items
        /\ calculateTotalPrice(order') = calculateTotalPrice(order)
        /\ order'.id = order.id
        /\ order'.customerId = order.customerId
        /\ order'.currency = order.currency
        /\ order'.orderedAt = order.orderedAt
        /\ DOMAIN order' = DOMAIN order ]_vars

\* a cancel() has succeeded on an order with two items
C17_Witness ==
    /\ order # Null
    /\ lastOp.op = "cancel"
    /\ thrown = NoError
    /\ order.state = "CANCELLED"
    /\ Len(order.items) = 2

-----------------------------------------------------------------------------
(* C18 *)

\* the state a transition leaves the order in when it succeeds
Target(op) ==
    CASE op = "confirm" -> "CONFIRMED"
      [] op = "ship" -> "SHIPPED"
      [] op = "cancel" -> "CANCELLED"

\* the states an order has been in, from PENDING on, after the transitions
\* `ops` succeeded in that order
RECURSIVE Path(_)
Path(ops) ==
    IF ops = <<>>
    THEN <<"PENDING">>
    ELSE Append(Path(SubSeq(ops, 1, Len(ops) - 1)), Target(ops[Len(ops)]))

NoRepeat(s) == \A i, j \in DOMAIN s : s[i] = s[j] => i = j

\* C18: the state of an order only moves forward: it is SHIPPED only after
\* a confirm() that succeeded with no successful cancel() after it, no state
\* is entered again once it was left (PENDING never again, nothing after
\* SHIPPED or CANCELLED), and at most two transitions succeed on one order.
C18_MonotonicProgress ==
    /\ order = Null => succeeded = <<>>
    /\ order # Null =>
         LET path == Path(succeeded) IN
         /\ path[Len(path)] = order.state
         /\ NoRepeat(path)
         /\ \A i \in 1..(Len(path) - 1) : path[i] \notin Terminal
         /\ Len(succeeded) <= 2
         /\ order.state = "SHIPPED" => succeeded = <<"confirm", "ship">>
         /\ order.state = "PENDING" => succeeded = <<>>

\* a cancel() has been refused on an order that was confirmed, then shipped
C18_Witness ==
    /\ order # Null
    /\ order.state = "SHIPPED"
    /\ succeeded = <<"confirm", "ship">>
    /\ lastOp.op = "cancel"
    /\ thrown # NoError

-----------------------------------------------------------------------------
(* C19 *)

\* how many calls of `op` have returned without throwing
Successes(op) == Cardinality({ i \in DOMAIN succeeded : succeeded[i] = op })

\* among the calls of one transition on the order, at most one succeeded
AtMostOneSuccess == \A op \in Transitions : Successes(op) <= 1

\* the invariants of an order: its state, customerId and currency, and the
\* shape of its items
OrderInvariants ==
    order # Null =>
        /\ order.state \in States
        /\ IsTrimmed(order.customerId)
        /\ order.currency \in Currencies
        /\ ~IsThrow(calculateTotalPrice(order))
        /\ \A i \in DOMAIN order.items :
             /\ order.items[i].unitPrice.currency = order.currency
             /\ order.items[i].orderId = order.id
             /\ ~IsBlank(order.items[i].productId)
             /\ IsPositive(order.items[i].quantity)

\* C19: every execution is a sequence of whole calls, whoever issues them:
\* in every state between two calls the invariants of the order hold, and of
\* the confirm() calls made on the order at most one has succeeded, likewise
\* of the ship() calls and of the cancel() calls.
C19_WholeOperations ==
    /\ AtMostOneSuccess
    /\ OrderInvariants

====
